---- MODULE Spec2Model ----
(***************************************************************************)
(* Model of zipline/pipeline/data/dataset.py: Column declarations, the     *)
(* binding descriptor that sits on DataSet classes, BoundColumn terms and  *)
(* the DataSetMeta metaclass that collects column names over a class       *)
(* hierarchy.                                                              *)
(*                                                                         *)
(* A class is identified by its position in `types` (DataSet itself is 1). *)
(* A descriptor object is identified by `addr`, the pair <<class, name>>   *)
(* of the class body and attribute it was created for.  A BoundColumn      *)
(* object is identified by `inst`.                                         *)
(***************************************************************************)
EXTENDS Integers, Sequences, FiniteSets, TLC

VARIABLES types, lastOp, ctx

vars == <<types, lastOp, ctx>>

\* ------------------------------------------------------------------ bounds
\* Number of DataSet subclasses that may be defined (DataSet itself excluded)
\* and number of attributes declared over all their class bodies.
MaxTypes == 3
MaxDecls == 2
\* The same for the deep hierarchies of SpecDeep.
MaxTypesDeep == 4
MaxDeclsDeep == 3
\* The same for the hierarchies read by concurrent readers in SpecConc.
MaxTypesConc == 2
MaxDeclsConc == 2
\* Number of direct bases in one class statement.
MaxBases == 2

\* ------------------------------------------------------------------ inputs
\* Attribute names a class body may bind a Column or a plain value to.  The
\* names the classes reserve for themselves (domain, columns, _column_names)
\* are not among them: `domain` is only ever bound to a plain value, so that
\* the read of dataset.domain in BoundColumn.__new__ ends.
Names == {"a", "b"}

Ctx == {1, 2}

NotSpecified == "NotSpecified"

DTypes == {"float64", "int64"}

DataSetId == 1

Range(s) == {s[i] : i \in 1..Len(s)}

\* ------------------------------------------------------------ collaborators
\* zipline.utils.numpy_utils.default_missing_value_for_dtype: float64 has a
\* registered default (NaN), int64 has none.
HasDefaultMissingValue(dtype) == dtype = "float64"

default_missing_value_for_dtype(dtype) == "NaN"

\* Term.validate_dtype: the pair as given, with the registered default filled
\* in for NotSpecified; NoDefaultMissingValue when there is none.
validate_dtype(termname, dtype, missing_value) ==
    IF missing_value # NotSpecified
    THEN [ok |-> TRUE, dtype |-> dtype, missing_value |-> missing_value]
    ELSE IF HasDefaultMissingValue(dtype)
    THEN [ok |-> TRUE, dtype |-> dtype,
          missing_value |-> default_missing_value_for_dtype(dtype)]
    ELSE [ok |-> FALSE, exc |-> "NoDefaultMissingValue", text |-> {termname}]

\* Term.static_identity over the arguments BoundColumn passes on.
Term_static_identity(domain, dtype, missing_value) ==
    <<"BoundColumn", domain, dtype, missing_value>>

\* ------------------------------------------------------------------ Column
Column_init(dtype, missing_value) ==
    [kind |-> "Column", dtype |-> dtype, missing_value |-> missing_value]

\* The Column objects a class body can hold: dtype validated by ensure_dtype,
\* missing_value either omitted or a value of that dtype.
ColumnInputs ==
    { Column_init("float64", NotSpecified),
      Column_init("int64", "-1"),
      Column_init("int64", NotSpecified) }

PlainInputs == { [kind |-> "plain", val |-> "p"] }

\* The value a class body may give its `domain` attribute.
DomainInputs == { [kind |-> "plain", val |-> "US"] }

\* ------------------------------------------------------- _BoundColumnDescr
\* Variant: the arguments are stored as given, not as validate_dtype returns them.
BoundColumnDescr_init_Raw(dtype, missing_value, name, addr) ==
    LET v == validate_dtype(<<"Column", name>>, dtype, missing_value)
    IN  IF v.ok
        THEN [kind |-> "descr", dtype |-> dtype,
              missing_value |-> missing_value, name |-> name, addr |-> addr]
        ELSE [kind |-> "raise", exc |-> "NoDefaultMissingValue",
              text |-> {name, dtype}]

\* Variant: NoDefaultMissingValue is swallowed and the descriptor is built.
BoundColumnDescr_init_NoCheck(dtype, missing_value, name, addr) ==
    LET v == validate_dtype(<<"Column", name>>, dtype, missing_value)
    IN  [kind |-> "descr", dtype |-> dtype,
         missing_value |-> IF v.ok THEN v.missing_value ELSE missing_value,
         name |-> name, addr |-> addr]

\* The exception carries the words its message contains.
BoundColumnDescr_init(dtype, missing_value, name, addr) ==
    LET v == validate_dtype(<<"Column", name>>, dtype, missing_value)
    IN  IF v.ok
        THEN [kind |-> "descr", dtype |-> v.dtype,
              missing_value |-> v.missing_value, name |-> name, addr |-> addr]
        ELSE [kind |-> "raise", exc |-> "NoDefaultMissingValue",
              text |-> {name, dtype}]

\* Variant: the column is bound to the class being defined right away.
Column_bind_Eager(self, name, addr) ==
    LET d == BoundColumnDescr_init(self.dtype, self.missing_value, name, addr)
    IN  IF d.kind = "raise"
        THEN d
        ELSE [kind |-> "BoundColumn",
              dtype |-> d.dtype,
              missing_value |-> d.missing_value,
              domain |-> "None",
              dataset |-> addr[1],
              name |-> name,
              identity |-> <<<<"BoundColumn", "None", d.dtype, d.missing_value>>,
                             addr[1], name>>,
              inst |-> 0]

Column_bind(self, name, addr) ==
    BoundColumnDescr_init(self.dtype, self.missing_value, name, addr)

\* ------------------------------------------------------------- BoundColumn
\* Variant: the dataset is left out of the key.
static_identity_NoDataset(dataset, name, domain, dtype, missing_value) ==
    <<Term_static_identity(domain, dtype, missing_value), name>>

static_identity(dataset, name, domain, dtype, missing_value) ==
    <<Term_static_identity(domain, dtype, missing_value), dataset, name>>

\* Variant: the class nearest the root wins.
Lookup_RootFirst(ts, T, attr) ==
    LET m == ts[T].mro
        hits == {i \in 1..Len(m) : attr \in DOMAIN ts[m[i]].ns}
    IN  IF hits = {}
        THEN [found |-> FALSE]
        ELSE LET i == CHOOSE k \in hits : \A j \in hits : k >= j
             IN  [found |-> TRUE, where |-> m[i], value |-> ts[m[i]].ns[attr]]

\* First class of T's resolution order whose namespace holds attr.
Lookup(ts, T, attr) ==
    LET m == ts[T].mro
        hits == {i \in 1..Len(m) : attr \in DOMAIN ts[m[i]].ns}
    IN  IF hits = {}
        THEN [found |-> FALSE]
        ELSE LET i == CHOOSE k \in hits : \A j \in hits : k <= j
             IN  [found |-> TRUE, where |-> m[i], value |-> ts[m[i]].ns[attr]]

\* Variant: every object is its own key.
BoundColumn_new_PerInstance(ts, dtype, missing_value, dataset, name, inst) ==
    LET domain == Lookup(ts, dataset, "domain").value.val
    IN  [kind |-> "BoundColumn",
         dtype |-> dtype,
         missing_value |-> missing_value,
         domain |-> domain,
         dataset |-> dataset,
         name |-> name,
         identity |-> <<static_identity(dataset, name, domain, dtype, missing_value),
                        inst>>,
         inst |-> inst]

BoundColumn_new(ts, dtype, missing_value, dataset, name, inst) ==
    LET domain == Lookup(ts, dataset, "domain").value.val
    IN  [kind |-> "BoundColumn",
         dtype |-> dtype,
         missing_value |-> missing_value,
         domain |-> domain,
         dataset |-> dataset,
         name |-> name,
         identity |-> static_identity(dataset, name, domain, dtype, missing_value),
         inst |-> inst]

\* Variant: the column is bound to the class whose body declared it.
BoundColumnDescr_get_AtDeclaration(ts, self, owner, inst) ==
    BoundColumn_new(ts, self.dtype, self.missing_value, self.addr[1], self.name, inst)

BoundColumnDescr_get(ts, self, owner, inst) ==
    BoundColumn_new(ts, self.dtype, self.missing_value, owner, self.name, inst)

\* Equality of two BoundColumns: equality of their identity keys.
BoundColumnEq(x, y) == x.identity = y.identity

\* getattr(T, attr) on a class: an attribute with __get__ is asked for its
\* value for owner T, any other attribute is returned as it is.
\* `l` is the outcome of the lookup along T's resolution order.
BindAttr(ts, l, T, attr, inst) ==
    IF ~l.found
    THEN [kind |-> "raise", exc |-> "AttributeError", text |-> {attr}]
    ELSE IF l.value.kind = "descr"
    THEN BoundColumnDescr_get(ts, l.value, T, inst)
    ELSE l.value

type_getattr(ts, T, attr, inst) == BindAttr(ts, Lookup(ts, T, attr), T, attr, inst)

\* ------------------------------------------------------------- DataSetMeta
\* C3 linearisation, as type.__new__ computes __mro__; <<0>> marks the
\* TypeError of an inconsistent hierarchy.
RECURSIVE Merge(_)
Merge(seqs) ==
    LET ne == SelectSeq(seqs, LAMBDA s : Len(s) > 0)
    IN  IF Len(ne) = 0
        THEN <<>>
        ELSE LET good == {i \in 1..Len(ne) :
                            \A j \in 1..Len(ne) : Head(ne[i]) \notin Range(Tail(ne[j]))}
             IN  IF good = {}
                 THEN <<0>>
                 ELSE LET i == CHOOSE k \in good : \A j \in good : k <= j
                          h == Head(ne[i])
                      IN  <<h>> \o Merge([k \in 1..Len(ne) |->
                                            SelectSeq(ne[k], LAMBDA x : x # h)])

Mro(ts, newid, bases) ==
    <<newid>> \o Merge([i \in 1..Len(bases) |-> ts[bases[i]].mro] \o <<bases>>)

\* The loop over the class body in the order `order` iterates it.
RECURSIVE BindLoop(_, _, _, _)
BindLoop(newid, dict_, order, acc) ==
    IF order = <<>> \/ acc.raised.kind = "raise"
    THEN acc
    ELSE LET maybe_colname == Head(order)
             maybe_column == dict_[maybe_colname]
         IN  IF maybe_column.kind = "Column"
             THEN LET bound_column_descr ==
                          Column_bind(maybe_column, maybe_colname,
                                      <<newid, maybe_colname>>)
                  IN  IF bound_column_descr.kind = "raise"
                      THEN [acc EXCEPT !.raised = bound_column_descr]
                      ELSE BindLoop(newid, dict_, Tail(order),
                               [acc EXCEPT
                                  !.ns = (maybe_colname :> bound_column_descr) @@ @,
                                  !.column_names = @ \cup {maybe_colname}])
             ELSE BindLoop(newid, dict_, Tail(order), acc)

\* Variant: only the first base is asked for its names.
InheritedNames_FirstBase(ts, bases) == ts[bases[1]]._column_names

InheritedNames(ts, bases) == UNION {ts[b]._column_names : b \in Range(bases)}

DataSetMeta_new(ts, newid, bases, dict_, order) ==
    LET mro == Mro(ts, newid, bases)
    IN  IF 0 \in Range(mro)
        THEN [ok |-> FALSE,
              exc |-> [kind |-> "raise", exc |-> "TypeError", text |-> {}]]
        ELSE LET acc == BindLoop(newid, dict_, order,
                                 [ns |-> dict_,
                                  column_names |-> InheritedNames(ts, bases),
                                  raised |-> [kind |-> "none"]])
             IN  IF acc.raised.kind = "raise"
                 THEN [ok |-> FALSE, exc |-> acc.raised]
                 ELSE [ok |-> TRUE,
                       newtype |-> [bases |-> bases,
                                    mro |-> mro,
                                    dict_ |-> dict_,
                                    ns |-> acc.ns,
                                    _column_names |-> acc.column_names]]

\* The classes after the class statement: the new class, with the attributes
\* set on it, joins them; no other class is written to.
\* Variant: the name set of the first base is updated in place.
Install_Aliased(ts, newtype) ==
    Append([ts EXCEPT ![newtype.bases[1]]._column_names = newtype._column_names],
           newtype)

Install(ts, newtype) == Append(ts, newtype)

DataSetMeta_columns(ts, self) ==
    LET instOf == [colname \in Names |-> IF colname = "a" THEN 1 ELSE 2]
    IN  { type_getattr(ts, self, colname, instOf[colname]) :
            colname \in ts[self]._column_names }

\* ------------------------------------------------------------------ inputs
BasesInputs(n) ==
    { s \in UNION {[1..k -> 1..n] : k \in 1..MaxBases} :
        \A i, j \in 1..Len(s) : i # j => s[i] # s[j] }

\* Class bodies: Columns or plain values under the names of `keys`, and a
\* domain when `keys` holds "domain".
DictInputs(keys, values) ==
    UNION { [S -> values \cup DomainInputs] : S \in SUBSET keys }

WellFormedDict(dict_) ==
    \A k \in DOMAIN dict_ : (k = "domain") <=> (dict_[k] \in DomainInputs)

Orders(S) ==
    { s \in [1..Cardinality(S) -> S] : \A i, j \in 1..Len(s) : i # j => s[i] # s[j] }

\* Attributes declared by the class bodies of the subclasses of DataSet.
DeclCount(ts) ==
    LET RECURSIVE Sum(_)
        Sum(i) == IF i <= DataSetId THEN 0
                  ELSE Cardinality(DOMAIN ts[i].ns) + Sum(i - 1)
    IN  Sum(Len(ts))

\* -------------------------------------------------------------------- Init
\* class DataSet(with_metaclass(DataSetMeta, object)): domain = None
DataSet ==
    [bases |-> <<>>,
     mro |-> <<DataSetId>>,
     dict_ |-> ("domain" :> [kind |-> "plain", val |-> "None"]),
     ns |-> ("domain" :> [kind |-> "plain", val |-> "None"]),
     _column_names |-> {}]

Idle == [pc |-> "idle"]

Init ==
    /\ types = <<DataSet>>
    /\ lastOp = [op |-> "none"]
    /\ ctx = [c \in Ctx |-> Idle]

\* ----------------------------------------------------------------- actions
\* A class statement `class X(bases): <dict_>`, the body iterated in `order`.
ClassStatement(bases, dict_, order) ==
    /\ LET newid == Len(types) + 1
           r == DataSetMeta_new(types, newid, bases, dict_, order)
       IN  IF r.ok
           THEN /\ types' = Install(types, r.newtype)
                /\ lastOp' = [op |-> "define", result |-> "ok", type |-> newid]
           ELSE /\ types' = types
                /\ lastOp' = [op |-> "define", result |-> "raise",
                              exc |-> r.exc, bases |-> bases, dict_ |-> dict_]
    /\ UNCHANGED ctx

DefineIn(maxTypes, maxDecls, keys, values) ==
    /\ Len(types) < maxTypes + 1
    /\ \E bases \in BasesInputs(Len(types)), dict_ \in DictInputs(keys, values) :
          /\ WellFormedDict(dict_)
          /\ DeclCount(types) + Cardinality(DOMAIN dict_) <= maxDecls
          /\ \E order \in Orders(DOMAIN dict_) : ClassStatement(bases, dict_, order)

Define ==
    DefineIn(MaxTypes, MaxDecls, Names \cup {"domain"}, ColumnInputs \cup PlainInputs)

\* `T.name` evaluated by one reader.
AccessIn(names) ==
    \E T \in 1..Len(types), name \in names :
        /\ lastOp' = [op |-> "access", owner |-> T, name |-> name,
                      result |-> type_getattr(types, T, name, 1)]
        /\ UNCHANGED <<types, ctx>>

Access == AccessIn(Names)

\* `T.columns` evaluated by one reader.
Columns ==
    \E T \in 1..Len(types) :
        /\ lastOp' = [op |-> "columns", owner |-> T,
                      result |-> DataSetMeta_columns(types, T)]
        /\ UNCHANGED <<types, ctx>>

Next == Define \/ Access \/ Columns

Spec == Init /\ [][Next]_vars

\* ---------------------------------------------------- deep hierarchies
\* Hierarchies of up to MaxTypesDeep classes whose bodies declare valid
\* Columns under one name.
DeepNames == {"a"}

DefineDeep ==
    DefineIn(MaxTypesDeep, MaxDeclsDeep, DeepNames,
             {c \in ColumnInputs :
                 c.missing_value # NotSpecified \/ HasDefaultMissingValue(c.dtype)})

AccessDeep == AccessIn(DeepNames)

NextDeep == DefineDeep \/ AccessDeep \/ Columns

SpecDeep == Init /\ [][NextDeep]_vars

\* --------------------------------------------------- concurrent readers
\* Each reader evaluates `T.name` in two steps: the lookup of the attribute
\* along T's resolution order, then the attribute's __get__.  Steps of the
\* readers and class statements interleave.
ConcNames == {"a"}

DefineConc ==
    DefineIn(MaxTypesConc, MaxDeclsConc, ConcNames \cup {"domain"},
             ColumnInputs \cup PlainInputs)

\* The BoundColumn objects the readers hold.
LiveInsts(c) ==
    {ctx[d].result.inst : d \in {e \in Ctx \ {c} :
                                   /\ ctx[e].pc = "done"
                                   /\ ctx[e].result.kind = "BoundColumn"}}

\* A new object is none of the live ones.
FreshInst(c) == CHOOSE i \in 1..(Cardinality(Ctx) + 1) :
                    /\ i \notin LiveInsts(c)
                    /\ \A j \in 1..(i - 1) : j \in LiveInsts(c)

BeginAccess(c) ==
    /\ ctx[c].pc \in {"idle", "done"}
    /\ \E T \in 1..Len(types), name \in ConcNames :
          ctx' = [ctx EXCEPT ![c] = [pc |-> "found", owner |-> T, name |-> name,
                                     attr |-> Lookup(types, T, name)]]
    /\ UNCHANGED <<types, lastOp>>

FinishAccess(c) ==
    /\ ctx[c].pc = "found"
    /\ ctx' = [ctx EXCEPT ![c] =
                  [pc |-> "done", owner |-> ctx[c].owner, name |-> ctx[c].name,
                   attr |-> ctx[c].attr,
                   result |-> BindAttr(types, ctx[c].attr, ctx[c].owner,
                                       ctx[c].name, FreshInst(c))]]
    /\ UNCHANGED <<types, lastOp>>

NextConc ==
    \/ DefineConc
    \/ \E c \in Ctx : BeginAccess(c)
    \/ \E c \in Ctx : FinishAccess(c)

SpecConc == Init /\ [][NextConc]_vars


\* ------------------------------------------------------------ vocabulary
Defined == 1..Len(types)

RECURSIVE AncestorsOf(_)
AncestorsOf(T) == UNION {{b} \cup AncestorsOf(b) : b \in Range(types[T].bases)}

DescendantsOf(B) == {D \in Defined : B \in AncestorsOf(D)}

\* Names the class body of T binds to a Column / to anything.
DeclaredColumns(T) ==
    {n \in DOMAIN types[T].dict_ : types[T].dict_[n].kind = "Column"}

DeclaredNames(T) == DOMAIN types[T].dict_ \ {"domain"}

\* B is the first class of D's resolution order whose body declares f.
ReachesFirst(D, B, f) ==
    \E i \in 1..Len(types[D].mro) :
        /\ types[D].mro[i] = B
        /\ f \in DeclaredNames(B)
        /\ \A j \in 1..(i - 1) : f \notin DeclaredNames(types[D].mro[j])

NoDefault(col) ==
    /\ col.kind = "Column"
    /\ col.missing_value = NotSpecified
    /\ ~HasDefaultMissingValue(col.dtype)

IdentityTuple(x) == <<x.dtype, x.missing_value, x.dataset, x.name>>

\* The BoundColumns the accesses possible now produce, as two objects each.
AllBound ==
    {x \in {type_getattr(types, T, n, i) : T \in Defined, n \in Names, i \in {1, 2}} :
        x.kind = "BoundColumn"}

\* ------------------------------------------------------------------ claims

\* C1: the column names of every class are the names its body binds to a
\* Column together with the column names of all of its ancestors.
InheritanceUnion ==
    \A T \in Defined :
        types[T]._column_names =
            DeclaredColumns(T) \cup UNION {types[A]._column_names : A \in AncestorsOf(T)}

\* A class with two bases that declares a column and inherits another one
\* from its second base only.
InheritanceUnionWitness ==
    \E T \in Defined :
        /\ Len(types[T].bases) = 2
        /\ DeclaredColumns(T) # {}
        /\ types[types[T].bases[2]]._column_names
              \ (types[types[T].bases[1]]._column_names \cup DeclaredColumns(T)) # {}

\* C2 as stated: for Base declaring column f and any descendant Derived whose
\* body does not declare f, Base.f and Derived.f come from the same
\* descriptor and are unequal BoundColumns owned by Base and by Derived.
\* (Stated for the hierarchies in which f is only ever bound to Columns.)
OwnerSensitivityAnyDescendant ==
    \A Base \in Defined, f \in Names :
        (/\ f \in DeclaredColumns(Base)
         /\ \A T \in Defined : f \in DeclaredNames(T) => f \in DeclaredColumns(T))
        => \A Derived \in DescendantsOf(Base) :
              f \notin DeclaredNames(Derived)
              => LET x == type_getattr(types, Base, f, 1)
                     y == type_getattr(types, Derived, f, 2)
                 IN  /\ Lookup(types, Derived, f).value = Lookup(types, Base, f).value
                     /\ x.kind = "BoundColumn" /\ x.dataset = Base
                     /\ y.kind = "BoundColumn" /\ y.dataset = Derived
                     /\ ~BoundColumnEq(x, y)

\* C2 amended: for Base declaring column f and any other class Derived for
\* which Base is the first class of its resolution order that declares f,
\* Base.f and Derived.f come from the same descriptor and are unequal
\* BoundColumns owned by Base and by Derived.
OwnerSensitivity ==
    \A Base \in Defined, f \in Names :
        f \in DeclaredColumns(Base)
        => \A Derived \in Defined \ {Base} :
              ReachesFirst(Derived, Base, f)
              => LET x == type_getattr(types, Base, f, 1)
                     y == type_getattr(types, Derived, f, 2)
                 IN  /\ Lookup(types, Derived, f).value = Lookup(types, Base, f).value
                     /\ Lookup(types, Base, f).value.addr = <<Base, f>>
                     /\ x.kind = "BoundColumn" /\ x.dataset = Base
                     /\ y.kind = "BoundColumn" /\ y.dataset = Derived
                     /\ ~BoundColumnEq(x, y)

\* Base.f has just been read through a class two levels below Base.
OwnerSensitivityWitness ==
    /\ lastOp.op = "access"
    /\ \E Base \in Defined \ {lastOp.owner} :
          /\ lastOp.name \in DeclaredColumns(Base)
          /\ ReachesFirst(lastOp.owner, Base, lastOp.name)
          /\ Base \notin Range(types[lastOp.owner].bases)
          /\ lastOp.result.kind = "BoundColumn"
          /\ lastOp.result.dataset = lastOp.owner

\* C3: every read of T.columns is a set of BoundColumns owned by T, one for
\* each of T's column names.
ColumnsAreBoundColumns ==
    lastOp.op = "columns"
    => LET names == types[lastOp.owner]._column_names
       IN  /\ Cardinality(lastOp.result) = Cardinality(names)
           /\ \A e \in lastOp.result :
                 /\ e.kind = "BoundColumn"
                 /\ e.dataset = lastOp.owner
                 /\ e.name \in names
           /\ \A n \in names : \E e \in lastOp.result :
                 e.kind = "BoundColumn" /\ e.name = n

\* C4: two BoundColumns are equal exactly when their (dtype, missing_value,
\* dataset, name) agree.
EqualIffSameTuple ==
    \A x, y \in AllBound \cup (IF lastOp.op = "access" /\ lastOp.result.kind = "BoundColumn"
                               THEN {lastOp.result} ELSE {}) :
        BoundColumnEq(x, y) <=> IdentityTuple(x) = IdentityTuple(y)

\* A column has just been read and there are columns that differ from it in
\* the owner alone, in the name alone, and in nothing but the object.
EqualIffSameTupleWitness ==
    /\ lastOp.op = "access"
    /\ lastOp.result.kind = "BoundColumn"
    /\ \E y \in AllBound :
          /\ y.dataset # lastOp.result.dataset
          /\ [y EXCEPT !.dataset = 0, !.identity = 0, !.inst = 0]
               = [lastOp.result EXCEPT !.dataset = 0, !.identity = 0, !.inst = 0]
    /\ \E y \in AllBound :
          /\ y.name # lastOp.result.name
          /\ [y EXCEPT !.name = "", !.identity = 0, !.inst = 0]
               = [lastOp.result EXCEPT !.name = "", !.identity = 0, !.inst = 0]
    /\ \E y \in AllBound :
          /\ y.inst # lastOp.result.inst
          /\ IdentityTuple(y) = IdentityTuple(lastOp.result)

ShadowingAnyDescendant ==
    \A B \in Defined, f \in Names :
        (f \in DeclaredColumns(B) /\ f \in InheritedNames(types, types[B].bases))
        => \A D \in {B} \cup {E \in DescendantsOf(B) : f \notin DeclaredNames(E)} :
              LET x == type_getattr(types, D, f, 1)
              IN  /\ x.kind = "BoundColumn"
                  /\ x.dtype = types[B].ns[f].dtype
                  /\ x.missing_value = types[B].ns[f].missing_value

\* C8 amended: a class statement that binds valid Columns to inherited column
\* names raises nothing on their account; B.f and D.f for every class D for
\* which B is the first class of its resolution order that declares f are
\* BoundColumns with the dtype and missing_value B declared; f stays one
\* column name.
Shadowing ==
    /\ \A B \in Defined, f \in Names :
          (f \in DeclaredColumns(B) /\ f \in InheritedNames(types, types[B].bases))
          => /\ f \in types[B]._column_names
             /\ \A D \in Defined :
                   ReachesFirst(D, B, f)
                   => LET x == type_getattr(types, D, f, 1)
                          col == types[B].dict_[f]
                      IN  /\ x.kind = "BoundColumn"
                          /\ x.dtype = col.dtype
                          /\ x.missing_value =
                                IF col.missing_value = NotSpecified
                                THEN default_missing_value_for_dtype(col.dtype)
                                ELSE col.missing_value
                          /\ Cardinality({e \in DataSetMeta_columns(types, D) :
                                            e.kind = "BoundColumn" /\ e.name = f}) = 1
    /\ (/\ lastOp.op = "define" /\ lastOp.result = "raise"
        /\ \A n \in DOMAIN lastOp.dict_ : ~NoDefault(lastOp.dict_[n]))
       => /\ lastOp.exc.exc = "TypeError"
          /\ 0 \in Range(Mro(types, Len(types) + 1, lastOp.bases))

\* The column has just been read through a descendant of a class that
\* shadows an ancestor's column with another dtype.
ShadowingWitness ==
    /\ lastOp.op = "access"
    /\ lastOp.result.kind = "BoundColumn"
    /\ \E B \in AncestorsOf(lastOp.owner) :
          /\ lastOp.name \in DeclaredColumns(B)
          /\ ReachesFirst(lastOp.owner, B, lastOp.name)
          /\ \E A \in AncestorsOf(B) :
                /\ lastOp.name \in DeclaredColumns(A)
                /\ types[A].dict_[lastOp.name].dtype # types[B].dict_[lastOp.name].dtype
                /\ lastOp.result.dtype = types[B].dict_[lastOp.name].dtype

\* C9: a class statement puts descriptors, never BoundColumns, on the class
\* and produces no BoundColumn; a BoundColumn is the result of a read and is
\* owned by the class it was read through.
Laziness ==
    /\ \A T \in Defined : \A n \in DOMAIN types[T].ns :
          /\ types[T].ns[n].kind \in {"descr", "plain"}
          /\ (types[T].ns[n].kind = "descr") <=> (types[T].dict_[n].kind = "Column")
    /\ lastOp.op = "define" => lastOp.result \in {"ok", "raise"}
    /\ (lastOp.op = "access" /\ lastOp.result.kind = "BoundColumn")
       => lastOp.result.dataset = lastOp.owner
    /\ lastOp.op = "columns"
       => \A e \in lastOp.result : e.kind = "BoundColumn" => e.dataset = lastOp.owner
    /\ \A T \in Defined, n \in Names :
          LET x == type_getattr(types, T, n, 1)
          IN  x.kind = "BoundColumn" => x.dataset = T

\* A column has just been read through a class other than the one that
\* declared it.
LazinessWitness ==
    /\ lastOp.op = "access"
    /\ lastOp.result.kind = "BoundColumn"
    /\ Lookup(types, lastOp.owner, lastOp.name).value.addr[1] # lastOp.owner

\* C10: no step changes the column names of a class that exists, nor what
\* any of its names resolves to.
Frozen ==
    [][\A T \in Defined :
          /\ T <= Len(types')
          /\ types'[T]._column_names = types[T]._column_names
          /\ \A n \in Names : Lookup(types', T, n) = Lookup(types, T, n)]_vars

\* A class shadows a column of an ancestor and a class statement has failed
\* since.
FrozenWitness ==
    /\ \E A \in Defined, D \in Defined, f \in Names :
          /\ A \in AncestorsOf(D)
          /\ f \in DeclaredColumns(A)
          /\ f \in DeclaredColumns(D)
          /\ Lookup(types, A, f).value.addr = <<A, f>>
    /\ lastOp.op = "define"
    /\ lastOp.result = "raise"

====
